---------------------------- MODULE Spec2Model ----------------------------
(***************************************************************************)
(* A model of navitia_model's relation layer (src/src/relations.rs):       *)
(* OneToMany::new with its construction loop, ManyToMany::from_forward,    *)
(* the two composition operators and the three queries of the Relation     *)
(* trait.                                                                  *)
(*                                                                         *)
(* A handle Idx<T> is a natural number: the position (from 0) of the       *)
(* object in its collection.  A BTreeMap is a function whose DOMAIN is     *)
(* its key set, a BTreeSet (IdxSet) is a set.  An Option is a sequence of  *)
(* length at most one.                                                     *)
(***************************************************************************)
EXTENDS Naturals, Sequences, FiniteSets, TLC

(***************************************************************************)
(* Bounds of the model.                                                    *)
(***************************************************************************)
\* number of distinct external identifiers of "one" objects
NumIds == 3
\* largest "one" collection
MaxOne == 2
\* largest "many" collection
MaxMany == 3
\* number of handles of each domain of a ManyToMany (From, Mid, To)
NumIdx == 2
\* largest number of associations of a forward map behind a composed relation
MaxAssoc == 2

OneIds == 1..NumIds
\* the diagnostic names given to OneToMany::new
RelNames == {"stop_areas_to_stop_points", "lines_to_routes"}

\* handles a query may be asked about: those of the largest collection and
\* one handle that no collection of the model holds
IdxT == 0..MaxOne
IdxU == 0..MaxMany
\* the handles of each domain of a forward map given to from_forward
IdxM == 0..(NumIdx - 1)

VARIABLES
    one,          \* the "one" collection given to OneToMany::new
    many,         \* the "many" collection given to OneToMany::new
    rel_name,     \* the diagnostic name given to OneToMany::new
    pc,           \* where the running constructor is
    iter,         \* number of elements many.iter() has yielded
    one_to_many,  \* new_impl's local map
    many_to_one,  \* new_impl's local map
    r1,           \* first input relation of a composition
    r2,           \* second input relation of a composition
    result,       \* what OneToMany::new returned
    rel,          \* the relation the caller holds once it is built
    out,          \* the last query and its answer
    inserting,    \* the forward maps two callers fill, pair by pair
    files,        \* the rows of the GTFS files under the path given to a reader
    collections,  \* the collections a GTFS reader has produced
    read_result,  \* what the GTFS reader returned
    rel_swapped,  \* the relation the caller builds from r2 and r1, in this order
    readers       \* the query each reader of the built relations is running

vars == <<one, many, rel_name, pc, iter, one_to_many, many_to_one,
          r1, r2, result, rel, out, inserting, files, collections, read_result,
          rel_swapped, readers>>

\* the variables that the constructors, the compositions of r1 with r2 and
\* the queries never touch
other_vars == <<inserting, files, collections, read_result, rel_swapped, readers>>

(***************************************************************************)
(* Values.                                                                 *)
(***************************************************************************)
None == <<>>
Some(v) == <<v>>

EmptyMap == <<>>

NotReturned == [tag |-> "NotReturned"]
Ok(v) == [tag |-> "Ok", v |-> v]
Err(e) == [tag |-> "Err", e |-> e]

NoRelation == [kind |-> "None"]
NoQuery == [op |-> "none"]
\* a directory whose GTFS files hold no row
NoFiles == [agency |-> <<>>, stops |-> <<>>, routes |-> <<>>, trips |-> <<>>]
\* Collections::default(): every collection empty
Collections_default ==
    [commercial_modes |-> <<>>, physical_modes |-> <<>>, lines |-> <<>>, routes |-> <<>>]

\* BTreeMap::insert
Insert(map, k, v) == [x \in (DOMAIN map) \cup {k} |-> IF x = k THEN v ELSE map[x]]

\* EntryInsert with the set of the key replaced instead of extended
EntryInsert_overwrite(map, k, v) == Insert(map, k, {v})

\* the entry insertion with the handle inserted only into a vacant entry
EntryInsert_vacant_only(map, k, v) ==
    IF k \in DOMAIN map THEN map ELSE Insert(map, k, {v})

\* map.entry(k).or_insert_with(IdxSet::default).insert(v)
EntryInsert(map, k, v) ==
    LET cur == IF k \in DOMAIN map THEN map[k] ELSE {}
    IN  Insert(map, k, cur \cup {v})

\* the smallest element of a non-empty set of handles
Min(S) == CHOOSE x \in S : \A y \in S : x <= y

\* the elements of a BTreeSet, or the keys of a BTreeMap, in iteration order
RECURSIVE InOrder(_)
InOrder(S) == IF S = {} THEN <<>>
              ELSE <<Min(S)>> \o InOrder(S \ {Min(S)})

(***************************************************************************)
(* CollectionWithId: a sequence of objects with distinct ids.  The handle  *)
(* of the object at position i (from 1) is i - 1.                          *)
(***************************************************************************)
\* CollectionWithId::get_idx: the handle of the object with this id
get_idx(collection, id) ==
    IF \E i \in 1..Len(collection) : collection[i].id = id
    THEN Some((CHOOSE i \in 1..Len(collection) : collection[i].id = id) - 1)
    ELSE None

\* the handles CollectionWithId::iter yields
Handles(collection) == {i - 1 : i \in 1..Len(collection)}

\* the collections of at most n objects with distinct ids drawn from ids
RECURSIVE SeqsUpTo(_, _)
SeqsUpTo(S, n) ==
    IF n = 0 THEN {<<>>}
    ELSE LET shorter == SeqsUpTo(S, n - 1)
         IN  shorter \cup {Append(s, x) : s \in {t \in shorter : Len(t) = n - 1}, x \in S}

DistinctIds(c) == \A i, j \in 1..Len(c) : c[i].id = c[j].id => i = j

OneObject(id) == [id |-> id]
ManyObject(id, one_id) == [id |-> id, one_id |-> one_id]

OneCollections ==
    {c \in SeqsUpTo({OneObject(id) : id \in OneIds}, MaxOne) : DistinctIds(c)}

\* the i-th "many" object has id i; its foreign key is any id
ManyCollections ==
    {[i \in 1..Len(fk) |-> ManyObject(i, fk[i])] : fk \in SeqsUpTo(OneIds, MaxMany)}

(***************************************************************************)
(* OneToMany                                                               *)
(***************************************************************************)
OneToMany(o2m, m2o) ==
    [kind |-> "OneToMany", one_to_many |-> o2m, many_to_one |-> m2o]

\* the state of new_impl before the loop
new_impl_start ==
    [pc |-> "new_impl", iter |-> 0, one_to_many |-> EmptyMap,
     many_to_one |-> EmptyMap, result |-> NotReturned]

\* new_impl_step with the unresolved foreign key skipped instead of returned
\* as an error
new_impl_step_skip_unresolved(c_one, c_many, st) ==
    IF st.iter = Len(c_many)
    THEN [st EXCEPT !.pc = "new",
                    !.result = Ok(OneToMany(st.one_to_many, st.many_to_one))]
    ELSE LET many_idx == st.iter
             one_idx == get_idx(c_one, c_many[st.iter + 1].one_id)
         IN  IF one_idx = None
             THEN [st EXCEPT !.iter = st.iter + 1]
             ELSE [st EXCEPT !.iter = st.iter + 1,
                             !.many_to_one = Insert(st.many_to_one, many_idx, one_idx[1]),
                             !.one_to_many = EntryInsert(st.one_to_many, one_idx[1], many_idx)]

\* new_impl_step with an (empty) entry made for every "one" handle
new_impl_step_all_parents(c_one, c_many, st) ==
    IF st.iter = Len(c_many)
    THEN [st EXCEPT !.pc = "new",
                    !.result = Ok(OneToMany(st.one_to_many, st.many_to_one))]
    ELSE LET many_idx == st.iter
             one_id == c_many[st.iter + 1].one_id
             one_idx == get_idx(c_one, one_id)
             all == [h \in Handles(c_one) \cup DOMAIN st.one_to_many |->
                       IF h \in DOMAIN st.one_to_many THEN st.one_to_many[h] ELSE {}]
         IN  IF one_idx = None
             THEN [st EXCEPT !.pc = "new",
                             !.iter = st.iter + 1,
                             !.result = Err(<<[msg |-> "id not found", id |-> one_id]>>)]
             ELSE [st EXCEPT !.iter = st.iter + 1,
                             !.many_to_one = Insert(st.many_to_one, many_idx, one_idx[1]),
                             !.one_to_many = EntryInsert(all, one_idx[1], many_idx)]

\* One step of new_impl from loop state st: one iteration of the loop over
\* many.iter(), returning the error of an unresolved id with `?`, or the
\* final Ok(OneToMany { .. }) once the iterator is exhausted.
new_impl_step(c_one, c_many, st) ==
    IF st.iter = Len(c_many)
    THEN [st EXCEPT !.pc = "new",
                    !.result = Ok(OneToMany(st.one_to_many, st.many_to_one))]
    ELSE LET many_idx == st.iter
             obj == c_many[st.iter + 1]
             one_id == obj.one_id
             one_idx == get_idx(c_one, one_id)
         IN  IF one_idx = None
             THEN [st EXCEPT !.pc = "new",
                             !.iter = st.iter + 1,
                             !.result = Err(<<[msg |-> "id not found", id |-> one_id]>>)]
             ELSE [st EXCEPT !.iter = st.iter + 1,
                             !.many_to_one = Insert(st.many_to_one, many_idx, one_idx[1]),
                             !.one_to_many = EntryInsert(st.one_to_many, one_idx[1], many_idx)]

\* new_impl run to its return
RECURSIVE new_impl_from(_, _, _)
new_impl_from(c_one, c_many, st) ==
    IF st.pc = "new" THEN st.result
    ELSE new_impl_from(c_one, c_many, new_impl_step(c_one, c_many, st))

new_impl(c_one, c_many) == new_impl_from(c_one, c_many, new_impl_start)

\* with_context with the error replaced by the context, its cause dropped
with_context_replace(res, context) ==
    IF res.tag = "Err" THEN Err(<<context>>) ELSE res

\* ResultExt::with_context: an error gets the context pushed in front of
\* its chain of causes, an Ok value is returned as it is
with_context(res, context) ==
    IF res.tag = "Err" THEN Err(<<context>> \o res.e) ELSE res

\* OneToMany::new
new(c_one, c_many, name) ==
    with_context(new_impl(c_one, c_many), [msg |-> "Error indexing", rel |-> name])

\* get_corresponding with only the first handle of `from` that is a key
\* projected
get_corresponding_first(map, from) ==
    IF from \cap DOMAIN map = {} THEN {}
    ELSE map[Min(from \cap DOMAIN map)]

\* get_corresponding that gives up, with the empty set, as soon as one handle
\* of `from` is not a key of `map`
get_corresponding_all_or_nothing(map, from) ==
    IF from \subseteq DOMAIN map THEN UNION {map[from_idx] : from_idx \in from}
    ELSE {}

\* get_corresponding: the union of the sets mapped to the handles of `from`
\* that are keys of `map`
get_corresponding(map, from) ==
    UNION {map[from_idx] : from_idx \in from \cap DOMAIN map}

OneToMany_get_from(r) == DOMAIN r.one_to_many

OneToMany_get_corresponding_forward(r, from) ==
    get_corresponding(r.one_to_many, from)

\* get_corresponding_backward with only the first handle of `from` looked up
OneToMany_get_corresponding_backward_first(r, from) ==
    IF from \cap DOMAIN r.many_to_one = {} THEN {}
    ELSE {r.many_to_one[Min(from \cap DOMAIN r.many_to_one)]}

OneToMany_get_corresponding_backward(r, from) ==
    {r.many_to_one[from_idx] : from_idx \in from \cap DOMAIN r.many_to_one}

(***************************************************************************)
(* ManyToMany                                                              *)
(***************************************************************************)
ManyToMany(forward, backward) ==
    [kind |-> "ManyToMany", forward |-> forward, backward |-> backward]

\* forward.iter().flat_map(..): every (from_idx, to_idx) pair, the keys in
\* order and, under each key, its set in order
RECURSIVE PairsOfKeys(_, _)
PairsOfKeys(forward, keys) ==
    IF keys = <<>> THEN <<>>
    ELSE LET from_idx == Head(keys)
             tos == InOrder(forward[from_idx])
         IN  [k \in 1..Len(tos) |-> <<from_idx, tos[k]>>]
             \o PairsOfKeys(forward, Tail(keys))

\* Pairs with only the first handle of each key's set enumerated
Pairs_first_only(forward) ==
    LET keys == InOrder({k \in DOMAIN forward : forward[k] # {}})
    IN  [i \in 1..Len(keys) |-> <<keys[i], Min(forward[keys[i]])>>]

Pairs(forward) == PairsOfKeys(forward, InOrder(DOMAIN forward))

\* InsertPairs with the handles of each pair taken in the forward direction:
\* backward[from] gets to
RECURSIVE InsertPairs_swapped(_, _)
InsertPairs_swapped(backward, pairs) ==
    IF pairs = <<>> THEN backward
    ELSE InsertPairs_swapped(EntryInsert(backward, Head(pairs)[1], Head(pairs)[2]),
                             Tail(pairs))

\* InsertPairs with backward.insert(to_idx, {from_idx}) in the closure: the
\* set of a To-handle is replaced by the last From-handle enumerated
RECURSIVE InsertPairs_overwrite(_, _)
InsertPairs_overwrite(backward, pairs) ==
    IF pairs = <<>> THEN backward
    ELSE InsertPairs_overwrite(Insert(backward, Head(pairs)[2], {Head(pairs)[1]}),
                               Tail(pairs))

\* the for_each closure of from_forward applied to the pairs in turn
RECURSIVE InsertPairs(_, _)
InsertPairs(backward, pairs) ==
    IF pairs = <<>> THEN backward
    ELSE InsertPairs(EntryInsert(backward, Head(pairs)[2], Head(pairs)[1]),
                     Tail(pairs))

\* ManyToMany::from_forward
from_forward(forward) ==
    ManyToMany(forward, InsertPairs(EmptyMap, Pairs(forward)))

ManyToMany_get_from(r) == DOMAIN r.forward

ManyToMany_get_corresponding_forward(r, from) ==
    get_corresponding(r.forward, from)

ManyToMany_get_corresponding_backward(r, from) ==
    get_corresponding(r.backward, from)

(***************************************************************************)
(* The Relation trait: each method dispatches on the implementing type.    *)
(***************************************************************************)
get_from(r) ==
    IF r.kind = "OneToMany" THEN OneToMany_get_from(r)
    ELSE ManyToMany_get_from(r)

get_corresponding_forward(r, from) ==
    IF r.kind = "OneToMany" THEN OneToMany_get_corresponding_forward(r, from)
    ELSE ManyToMany_get_corresponding_forward(r, from)

get_corresponding_backward(r, from) ==
    IF r.kind = "OneToMany" THEN OneToMany_get_corresponding_backward(r, from)
    ELSE ManyToMany_get_corresponding_backward(r, from)

\* from_relations_chain projecting backward through the second relation, as
\* from_relations_sink does
from_relations_chain_backward(ra, rb) ==
    LET forward == [idx \in get_from(ra) |->
                       get_corresponding_backward(rb, get_corresponding_forward(ra, {idx}))]
    IN  from_forward(forward)

\* from_relations_sink projecting forward through the second relation, as
\* from_relations_chain does
from_relations_sink_forward(ra, rb) ==
    LET forward == [idx \in get_from(ra) |->
                       get_corresponding_forward(rb, get_corresponding_forward(ra, {idx}))]
    IN  from_forward(forward)

\* from_relations_sink that fills forward for the first handle of
\* r1.get_from() only
from_relations_sink_first_handle(ra, rb) ==
    LET forward == [idx \in {h \in get_from(ra) : h = Min(get_from(ra))} |->
                       get_corresponding_backward(rb, get_corresponding_forward(ra, {idx}))]
    IN  from_forward(forward)

\* ManyToMany::from_relations_chain
from_relations_chain(ra, rb) ==
    LET forward == [idx \in get_from(ra) |->
                       LET from == {idx}
                           tmp == get_corresponding_forward(ra, from)
                       IN  get_corresponding_forward(rb, tmp)]
    IN  from_forward(forward)

\* ManyToMany::from_relations_sink
from_relations_sink(ra, rb) ==
    LET forward == [idx \in get_from(ra) |->
                       LET from == {idx}
                           tmp == get_corresponding_forward(ra, from)
                       IN  get_corresponding_backward(rb, tmp)]
    IN  from_forward(forward)

(***************************************************************************)
(* The queries, asked of the built relation.                               *)
(***************************************************************************)
Built == rel.kind # "None"

\* the caller holds no answer: none was asked for, or the last one was dropped
NoAnswer == out = NoQuery

GetFrom ==
    /\ Built
    /\ NoAnswer
    /\ out' = [op |-> "get_from", from |-> {}, res |-> get_from(rel)]
    /\ UNCHANGED other_vars
    /\ UNCHANGED <<one, many, rel_name, pc, iter, one_to_many, many_to_one,
                   r1, r2, result, rel>>

GetCorrespondingForward(from) ==
    /\ Built
    /\ NoAnswer
    /\ out' = [op |-> "get_corresponding_forward", from |-> from,
               res |-> get_corresponding_forward(rel, from)]
    /\ UNCHANGED other_vars
    /\ UNCHANGED <<one, many, rel_name, pc, iter, one_to_many, many_to_one,
                   r1, r2, result, rel>>

GetCorrespondingBackward(from) ==
    /\ Built
    /\ NoAnswer
    /\ out' = [op |-> "get_corresponding_backward", from |-> from,
               res |-> get_corresponding_backward(rel, from)]
    /\ UNCHANGED other_vars
    /\ UNCHANGED <<one, many, rel_name, pc, iter, one_to_many, many_to_one,
                   r1, r2, result, rel>>

\* the caller drops the answer (an owned IdxSet) before it asks again
DropAnswer ==
    /\ ~NoAnswer
    /\ out' = NoQuery
    /\ UNCHANGED other_vars
    /\ UNCHANGED <<one, many, rel_name, pc, iter, one_to_many, many_to_one,
                   r1, r2, result, rel>>

(***************************************************************************)
(* Spec: a caller builds one relation, with OneToMany::new (one loop       *)
(* iteration at a time) or with ManyToMany::from_forward, and queries it.  *)
(***************************************************************************)
Init ==
    /\ one = <<>>
    /\ many = <<>>
    /\ rel_name = ""
    /\ pc = "idle"
    /\ iter = 0
    /\ one_to_many = EmptyMap
    /\ many_to_one = EmptyMap
    /\ r1 = NoRelation
    /\ r2 = NoRelation
    /\ result = NotReturned
    /\ rel = NoRelation
    /\ out = NoQuery
    /\ inserting = <<>>
    /\ files = NoFiles
    /\ collections = Collections_default
    /\ read_result = NotReturned
    /\ rel_swapped = NoRelation
    /\ readers = <<>>

\* the call OneToMany::new(one, many, rel_name): new_impl is entered
New(c_one, c_many, name) ==
    /\ pc = "idle"
    /\ one' = c_one
    /\ many' = c_many
    /\ rel_name' = name
    /\ pc' = new_impl_start.pc
    /\ iter' = new_impl_start.iter
    /\ one_to_many' = new_impl_start.one_to_many
    /\ many_to_one' = new_impl_start.many_to_one
    /\ result' = new_impl_start.result
    /\ UNCHANGED other_vars
    /\ UNCHANGED <<r1, r2, rel, out>>

\* new_impl's locals as a loop state
Locals ==
    [pc |-> pc, iter |-> iter, one_to_many |-> one_to_many,
     many_to_one |-> many_to_one, result |-> result]

Context == [msg |-> "Error indexing", rel |-> rel_name]

\* one iteration of the loop whose foreign key resolves
NewImplInsert ==
    /\ pc = "new_impl"
    /\ LET st == new_impl_step(one, many, Locals)
       IN  /\ st.pc = "new_impl"
           /\ iter' = st.iter
           /\ one_to_many' = st.one_to_many
           /\ many_to_one' = st.many_to_one
    /\ UNCHANGED other_vars
    /\ UNCHANGED <<one, many, rel_name, pc, r1, r2, result, rel, out>>

\* the iteration whose foreign key does not resolve: new_impl returns the
\* error, new adds its context and returns it
NewImplErr ==
    /\ pc = "new_impl"
    /\ LET st == new_impl_step(one, many, Locals)
       IN  /\ st.pc = "new"
           /\ st.result.tag = "Err"
           /\ iter' = st.iter
           /\ result' = with_context(st.result, Context)
    /\ pc' = "done"
    /\ UNCHANGED other_vars
    /\ UNCHANGED <<one, many, rel_name, one_to_many, many_to_one, r1, r2, rel, out>>

\* the iterator is exhausted: new_impl returns the relation, new returns it
\* and the caller holds it
NewImplOk ==
    /\ pc = "new_impl"
    /\ LET st == new_impl_step(one, many, Locals)
       IN  /\ st.pc = "new"
           /\ st.result.tag = "Ok"
           /\ result' = with_context(st.result, Context)
           /\ rel' = st.result.v
    /\ pc' = "done"
    /\ UNCHANGED other_vars
    /\ UNCHANGED <<one, many, rel_name, iter, one_to_many, many_to_one, r1, r2, out>>

\* the forward maps given to from_forward: any keys, each mapped to any set,
\* the empty set included
ForwardMaps(keys, values) ==
    UNION {[D -> SUBSET values] : D \in SUBSET keys}

\* the call ManyToMany::from_forward(forward)
FromForward(forward) ==
    /\ pc = "idle"
    /\ rel' = from_forward(forward)
    /\ pc' = "done"
    /\ UNCHANGED other_vars
    /\ UNCHANGED <<one, many, rel_name, iter, one_to_many, many_to_one,
                   r1, r2, result, out>>

Next ==
    \/ /\ pc = "idle"
       /\ \E c_one \in OneCollections, c_many \in ManyCollections, name \in RelNames :
              New(c_one, c_many, name)
    \/ NewImplInsert
    \/ NewImplErr
    \/ NewImplOk
    \/ /\ pc = "idle"
       /\ \E forward \in ForwardMaps(IdxM, IdxM) : FromForward(forward)
    \/ GetFrom
    \/ \E from \in SUBSET IdxT : GetCorrespondingForward(from)
    \/ \E from \in SUBSET IdxU : GetCorrespondingBackward(from)
    \/ DropAnswer

Spec == Init /\ [][Next]_vars

(***************************************************************************)
(* Properties of OneToMany::new and ManyToMany::from_forward, under Spec.  *)
(***************************************************************************)
\* new has returned
NewReturned == result.tag # "NotReturned"

\* the foreign key of the "many" object of handle m resolves to handle h
ResolvesTo(m, h) ==
    /\ m \in Handles(many)
    /\ get_idx(one, many[m + 1].one_id) = Some(h)

Unresolved(m) == get_idx(one, many[m + 1].one_id) = None

\* the "one" handles that are the parent of at least one "many" object
Parents == {h \in Handles(one) : \E m \in Handles(many) : ResolvesTo(m, h)}

\* C1: OneToMany::new returns an error, and the caller gets no relation,
\* whenever some "many" object's foreign key does not resolve in the "one"
\* collection; it returns Ok only if every foreign key resolves.
C1_NewFailsIffUnresolved ==
    NewReturned =>
        /\ (\E m \in Handles(many) : Unresolved(m))
               => (result.tag = "Err" /\ rel = NoRelation)
        /\ result.tag = "Ok"
               => (/\ \A m \in Handles(many) : ~Unresolved(m)
                   /\ rel = result.v)

\* new failed after it had inserted at least one resolved element
C1_Witness ==
    /\ NewReturned
    /\ result.tag = "Err"
    /\ DOMAIN many_to_one # {}
    /\ rel = NoRelation

\* C2: get_from() of a built OneToMany is exactly the set of "one" handles
\* with at least one child, and one_to_many never maps a key to the empty
\* set: not in the built relation, not after any iteration of the loop.
C2_GetFromIsParents ==
    /\ \A k \in DOMAIN one_to_many : one_to_many[k] # {}
    /\ rel.kind = "OneToMany" =>
           /\ get_from(rel) = Parents
           /\ \A k \in DOMAIN rel.one_to_many : rel.one_to_many[k] # {}
    /\ (rel.kind = "OneToMany" /\ out.op = "get_from") => out.res = Parents

\* get_from has answered {A} for a "one" collection {A, B} whose B has no
\* child
C2_Witness ==
    /\ rel.kind = "OneToMany"
    /\ out.op = "get_from"
    /\ Len(one) = 2
    /\ out.res = {0}
    /\ 1 \notin out.res

\* v is associated with u in the map (a missing key is the empty set)
Assoc(map, u, v) == u \in DOMAIN map /\ v \in map[u]

\* C3: for every forward map F, keys mapped to the empty set included,
\* from_forward(F) has v in forward[u] if and only if u in backward[v].
C3_ForwardBackwardInverse ==
    rel.kind = "ManyToMany" =>
        \A u, v \in IdxU : Assoc(rel.forward, u, v) <=> Assoc(rel.backward, v, u)

\* from_forward was given a key mapped to the empty set and a key mapped to
\* two handles
C3_Witness ==
    /\ rel.kind = "ManyToMany"
    /\ \E u \in DOMAIN rel.forward : rel.forward[u] = {}
    /\ \E u \in DOMAIN rel.forward : Cardinality(rel.forward[u]) = 2
    /\ DOMAIN rel.backward # {}

\* C8: get_corresponding_forward(S) of a built OneToMany is exactly the set
\* of "many" handles whose foreign key resolved to a handle of S.
C8_ForwardIsChildren ==
    (rel.kind = "OneToMany" /\ out.op = "get_corresponding_forward") =>
        out.res = {m \in Handles(many) : \E h \in out.from : ResolvesTo(m, h)}

\* one = {SA1, SA2}, many = {SP1 -> SA1, SP2 -> SA1, SP3 -> SA2}:
\* get_corresponding_forward({SA1}) has answered {SP1, SP2}
C8_Witness ==
    /\ rel.kind = "OneToMany"
    /\ out.op = "get_corresponding_forward"
    /\ Len(one) = 2
    /\ Len(many) = 3
    /\ ResolvesTo(0, 0) /\ ResolvesTo(1, 0) /\ ResolvesTo(2, 1)
    /\ out.from = {0}
    /\ out.res = {0, 1}

\* C9: get_corresponding_backward(M) of a built OneToMany is exactly the set
\* of the parents of the handles of M; children of one parent contribute it
\* once, and the answer has at most |M| elements.
C9_BackwardIsParents ==
    (rel.kind = "OneToMany" /\ out.op = "get_corresponding_backward") =>
        /\ out.res = {h \in Handles(one) : \E m \in out.from : ResolvesTo(m, h)}
        /\ Cardinality(out.res) <= Cardinality(out.from)

\* three children, two of them of one parent: two parents are answered
C9_Witness ==
    /\ rel.kind = "OneToMany"
    /\ out.op = "get_corresponding_backward"
    /\ out.from = {0, 1, 2}
    /\ ResolvesTo(0, 0) /\ ResolvesTo(1, 1) /\ ResolvesTo(2, 0)
    /\ out.res = {0, 1}

\* the keys of the map that the query op of relation r looks into
QueriedKeys(r, op) ==
    IF op = "get_corresponding_forward"
    THEN (IF r.kind = "OneToMany" THEN DOMAIN r.one_to_many ELSE DOMAIN r.forward)
    ELSE (IF r.kind = "OneToMany" THEN DOMAIN r.many_to_one ELSE DOMAIN r.backward)

\* the query op of relation r asked about `from`
Query(r, op, from) ==
    IF op = "get_corresponding_forward"
    THEN get_corresponding_forward(r, from)
    ELSE get_corresponding_backward(r, from)

\* C10: a projection of a OneToMany or of a ManyToMany always answers; a
\* handle that is not a key of the queried map contributes nothing: the
\* answer is that for the handles of the input that are keys, and it is
\* empty when none is.
C10_AbsentHandlesContributeNothing ==
    out.op \in {"get_corresponding_forward", "get_corresponding_backward"} =>
        LET present == out.from \cap QueriedKeys(rel, out.op)
        IN  /\ out.res = Query(rel, out.op, present)
            /\ out.res = UNION {Query(rel, out.op, {h}) : h \in present}
            /\ present = {} => out.res = {}

\* a query about a key with an association and a handle that is no key has
\* answered, and is not empty
C10_Witness ==
    /\ out.op \in {"get_corresponding_forward", "get_corresponding_backward"}
    /\ out.from \cap QueriedKeys(rel, out.op) # {}
    /\ out.from \ QueriedKeys(rel, out.op) # {}
    /\ out.res # {}

\* the first "many" handle, in handle order, whose foreign key does not
\* resolve
FirstUnresolved == Min({m \in Handles(many) : Unresolved(m)})

\* C18: when OneToMany::new fails, the construction has stopped at the first
\* "many" element, in handle order, whose foreign key does not resolve: the
\* error is "id=<that element's foreign key> not found" under the context
\* "Error indexing <rel_name>", every earlier element has been inserted and
\* no later element has been examined.
C18_FailsAtFirstUnresolved ==
    (NewReturned /\ result.tag = "Err") =>
        /\ \E m \in Handles(many) : Unresolved(m)
        /\ result.e = <<[msg |-> "Error indexing", rel |-> rel_name],
                        [msg |-> "id not found",
                         id |-> many[FirstUnresolved + 1].one_id]>>
        /\ iter = FirstUnresolved + 1
        /\ DOMAIN many_to_one = {m \in Handles(many) : m < FirstUnresolved}

\* new failed on the second of three elements, whose first and third
\* resolve and whose second and third foreign keys differ
C18_Witness ==
    /\ NewReturned
    /\ result.tag = "Err"
    /\ Len(many) = 3
    /\ FirstUnresolved = 1
    /\ many[3].one_id # many[2].one_id
    /\ result.e[2].id = many[2].one_id
    /\ iter = 2

\* C19: in every built OneToMany, many_to_one is total over the "many"
\* collection, each handle mapped to one "one" handle, and one_to_many is
\* its exact inverse; the inverse holds as well after every iteration of the
\* loop, for the handles processed so far.
C19_ManyToOneTotalAndInverse ==
    /\ pc = "new_impl" =>
           /\ DOMAIN many_to_one = {m \in Handles(many) : m < iter}
           /\ \A m \in IdxU, o \in IdxT :
                  Assoc(one_to_many, o, m)
                      <=> (m \in DOMAIN many_to_one /\ many_to_one[m] = o)
    /\ rel.kind = "OneToMany" =>
           /\ DOMAIN rel.many_to_one = Handles(many)
           /\ \A m \in Handles(many) : rel.many_to_one[m] \in Handles(one)
           /\ \A m \in IdxU, o \in IdxT :
                  Assoc(rel.one_to_many, o, m)
                      <=> (m \in DOMAIN rel.many_to_one /\ rel.many_to_one[m] = o)

\* a relation of three children, two of them of one parent, is built
C19_Witness ==
    /\ rel.kind = "OneToMany"
    /\ Len(many) = 3
    /\ \E o \in DOMAIN rel.one_to_many : Cardinality(rel.one_to_many[o]) = 2
    /\ Cardinality(DOMAIN rel.one_to_many) = 2

(***************************************************************************)
(* SpecCompose: a caller that holds two built relations r1 and r2, each    *)
(* one the value of OneToMany::new or of ManyToMany::from_forward,         *)
(* composes them with from_relations_chain or from_relations_sink.         *)
(***************************************************************************)
\* every relation OneToMany::new returns for the collections of the model
OneToManyRelations ==
    {res.v : res \in {r \in {new(c_one, c_many, "r") : c_one \in OneCollections,
                                                       c_many \in ManyCollections} :
                         r.tag = "Ok"}}

\* the number of associations of a forward map
RECURSIVE NumAssoc(_, _)
NumAssoc(forward, keys) ==
    IF keys = {} THEN 0
    ELSE LET k == Min(keys)
         IN  Cardinality(forward[k]) + NumAssoc(forward, keys \ {k})

\* every relation from_forward returns for the forward maps of the model that
\* hold at most MaxAssoc associations
ManyToManyRelations ==
    {from_forward(forward) :
        forward \in {f \in ForwardMaps(IdxM, IdxM) : NumAssoc(f, DOMAIN f) <= MaxAssoc}}

Relations == OneToManyRelations \cup ManyToManyRelations

InitCompose ==
    /\ one = <<>>
    /\ many = <<>>
    /\ rel_name = ""
    /\ pc = "idle"
    /\ iter = 0
    /\ one_to_many = EmptyMap
    /\ many_to_one = EmptyMap
    /\ r1 \in Relations
    /\ r2 \in Relations
    /\ result = NotReturned
    /\ rel = NoRelation
    /\ out = NoQuery
    /\ inserting = <<>>
    /\ files = NoFiles
    /\ collections = Collections_default
    /\ read_result = NotReturned
    /\ rel_swapped = NoRelation
    /\ readers = <<>>

\* the call ManyToMany::from_relations_chain(&r1, &r2)
FromRelationsChain ==
    /\ pc = "idle"
    /\ rel' = from_relations_chain(r1, r2)
    /\ pc' = "chain"
    /\ UNCHANGED other_vars
    /\ UNCHANGED <<one, many, rel_name, iter, one_to_many, many_to_one,
                   r1, r2, result, out>>

\* the call ManyToMany::from_relations_sink(&r1, &r2)
FromRelationsSink ==
    /\ pc = "idle"
    /\ rel' = from_relations_sink(r1, r2)
    /\ pc' = "sink"
    /\ UNCHANGED other_vars
    /\ UNCHANGED <<one, many, rel_name, iter, one_to_many, many_to_one,
                   r1, r2, result, out>>

NextCompose ==
    \/ FromRelationsChain
    \/ FromRelationsSink

SpecCompose == InitCompose /\ [][NextCompose]_vars

(***************************************************************************)
(* Properties of the compositions, under SpecCompose.                      *)
(***************************************************************************)
\* v is associated with u by relation r, read in its forward map
Associated(r, u, v) == v \in get_corresponding_forward(r, {u})

\* C4: for a relation R built by from_relations_chain and all From-handle
\* sets A and B, R.get_corresponding_forward(A union B) is the union of
\* R.get_corresponding_forward(A) and R.get_corresponding_forward(B).
C4_ChainForwardDistributes ==
    pc = "chain" =>
        \A A \in SUBSET IdxT, B \in SUBSET IdxT :
            get_corresponding_forward(rel, A \cup B)
                = get_corresponding_forward(rel, A) \cup get_corresponding_forward(rel, B)

\* a chain has two From-handles a and b whose projections are not empty and
\* differ, each missing a handle of their union
C4_Witness ==
    /\ pc = "chain"
    /\ \E a, b \in get_from(rel) :
           /\ a # b
           /\ get_corresponding_forward(rel, {a}) # {}
           /\ get_corresponding_forward(rel, {b}) # {}
           /\ get_corresponding_forward(rel, {a, b})
                  \notin {get_corresponding_forward(rel, {a}),
                          get_corresponding_forward(rel, {b})}

\* C5: in the relation built by from_relations_chain(r1, r2), forward[h] of
\* every handle h of r1.get_from() is r2.forward(r1.forward({h})): v is
\* associated with h exactly when some Mid-handle m is associated with h
\* in r1 and v with m in r2; no handle outside r1.get_from() has an
\* association.
C5_ChainForward ==
    pc = "chain" =>
        /\ \A h \in get_from(r1) :
               /\ h \in DOMAIN rel.forward
               /\ rel.forward[h] = get_corresponding_forward(
                                       r2, get_corresponding_forward(r1, {h}))
               /\ \A v \in IdxU :
                      v \in rel.forward[h]
                          <=> \E m \in IdxU : Associated(r1, h, m) /\ Associated(r2, m, v)
        /\ \A u \in IdxU \ get_from(r1) :
               /\ u \notin DOMAIN rel.forward
               /\ get_corresponding_forward(rel, {u}) = {}
               /\ \A v \in DOMAIN rel.backward : u \notin rel.backward[v]

\* a chain of a OneToMany and a ManyToMany in which a handle reaches two
\* To-handles through two different Mid-handles
C5_Witness ==
    /\ pc = "chain"
    /\ r1.kind = "OneToMany"
    /\ r2.kind = "ManyToMany"
    /\ \E h \in get_from(r1) :
           /\ Cardinality(get_corresponding_forward(r1, {h})) = 2
           /\ Cardinality(rel.forward[h]) = 2
           /\ \A m \in get_corresponding_forward(r1, {h}) :
                  Cardinality(get_corresponding_forward(r2, {m})) = 1

\* C6: in the relation built by from_relations_sink(r1, r2), forward[h] of
\* every handle h of r1.get_from() is r2.backward(r1.forward({h})): v is
\* associated with h exactly when h, through r1, and v, through r2, share a
\* Mid-handle.
C6_SinkForward ==
    pc = "sink" =>
        \A h \in get_from(r1) :
            /\ h \in DOMAIN rel.forward
            /\ rel.forward[h] = get_corresponding_backward(
                                    r2, get_corresponding_forward(r1, {h}))
            /\ \A v \in IdxU :
                   v \in rel.forward[h]
                       <=> \E m \in IdxU : Associated(r1, h, m) /\ Associated(r2, v, m)

\* a sink of a ManyToMany and a OneToMany: a handle of r1 that has two
\* Mid-handles is associated with a handle of r2 that shares one of them, and
\* not with another handle of r2, which shares none
C6_Witness ==
    /\ pc = "sink"
    /\ r1.kind = "ManyToMany"
    /\ r2.kind = "OneToMany"
    /\ \E h \in get_from(r1) :
           /\ rel.forward[h] # {}
           /\ get_from(r2) \ rel.forward[h] # {}
           /\ Cardinality(get_corresponding_forward(r1, {h})) = 2

\* C7 (as claimed): get_from() of a ManyToMany, built by from_forward,
\* from_relations_chain or from_relations_sink, is exactly the set of
\* From-handles whose forward To-set is not empty.
C7_GetFromHasAssociation ==
    rel.kind = "ManyToMany" =>
        get_from(rel) = {u \in IdxU : get_corresponding_forward(rel, {u}) # {}}

\* C20: for r1 and r2 built by new or from_forward and R the relation built
\* by from_relations_chain(r1, r2), R.get_corresponding_backward(S) is
\* r1.get_corresponding_backward(r2.get_corresponding_backward(S)) for every
\* set S of To-handles.
C20_ChainBackward ==
    pc = "chain" =>
        \A S \in SUBSET IdxU :
            get_corresponding_backward(rel, S)
                = get_corresponding_backward(r1, get_corresponding_backward(r2, S))

\* a chain of two relations, the first one not symmetric, in which a
\* To-handle is reached from a From-handle that is not a To-handle of r2
C20_Witness ==
    /\ pc = "chain"
    /\ \E v \in IdxU :
           /\ get_corresponding_backward(rel, {v}) # {}
           /\ get_corresponding_backward(rel, {v})
                  # get_corresponding_forward(rel, {v})
           /\ get_corresponding_backward(rel, {v})
                  # get_corresponding_backward(r2, {v})

(***************************************************************************)
(* SpecSink: a caller that holds two built relations r1 and r2 toward the  *)
(* same Mid collection calls from_relations_sink(&r1, &r2) and then        *)
(* from_relations_sink(&r2, &r1), and keeps both relations.                *)
(***************************************************************************)
\* the call ManyToMany::from_relations_sink(&r2, &r1), after the call
\* ManyToMany::from_relations_sink(&r1, &r2)
FromRelationsSinkSwapped ==
    /\ pc = "sink"
    /\ rel_swapped' = from_relations_sink(r2, r1)
    /\ pc' = "sink_swapped"
    /\ UNCHANGED <<inserting, files, collections, read_result, readers>>
    /\ UNCHANGED <<one, many, rel_name, iter, one_to_many, many_to_one,
                   r1, r2, result, rel, out>>

NextSink ==
    \/ FromRelationsSink
    \/ FromRelationsSinkSwapped

SpecSink == InitCompose /\ [][NextSink]_vars

\* b is in forward[a] of the ManyToMany r: a key that forward does not hold
\* has no To-handle
InForward(r, a, b) == a \in DOMAIN r.forward /\ b \in r.forward[a]

\* C21: for r1 and r2 built by new or from_forward, from_relations_sink(r1,
\* r2) and from_relations_sink(r2, r1) are converse relations: b is in the
\* forward set of a in the first exactly when a is in the forward set of b
\* in the second, and on every set of handles the backward projection of
\* each is the forward projection of the other.
C21_SinkSymmetric ==
    pc = "sink_swapped" =>
        /\ \A a \in IdxU, b \in IdxU :
               InForward(rel, a, b) <=> InForward(rel_swapped, b, a)
        /\ \A S \in SUBSET IdxU :
               /\ get_corresponding_backward(rel, S)
                      = get_corresponding_forward(rel_swapped, S)
               /\ get_corresponding_backward(rel_swapped, S)
                      = get_corresponding_forward(rel, S)

\* both sinks of a ManyToMany and a OneToMany are built, the first is not
\* its own converse, and a handle of r1 with two Mid-handles is associated
\* with one handle of r2 and not with another
C21_Witness ==
    /\ pc = "sink_swapped"
    /\ r1.kind = "ManyToMany"
    /\ r2.kind = "OneToMany"
    /\ rel.forward # rel_swapped.forward
    /\ \E a \in get_from(r1), b \in get_from(r2) :
           /\ a # b
           /\ InForward(rel, a, b)
           /\ InForward(rel_swapped, b, a)
           /\ ~InForward(rel, b, a)
           /\ get_from(r2) \ rel.forward[a] # {}
           /\ Cardinality(get_corresponding_forward(r1, {a})) = 2

(***************************************************************************)
(* SpecReaders: the caller holds two built relations r1 and r2 and shares  *)
(* them, by reference, with several readers; it composes them once, with   *)
(* from_relations_chain or from_relations_sink, and shares the composed    *)
(* relation rel too.  A reader runs one query at a time; a query is an     *)
(* iterator over the keys of the map (get_from) or over the handles of     *)
(* `from` (the two projections), which reads the map once for each handle  *)
(* it yields and collects what it finds; the steps of the readers and the  *)
(* composition interleave.                                                 *)
(***************************************************************************)
NumReaders == 2

Readers == 1..NumReaders

QueryOps == {"get_from", "get_corresponding_forward", "get_corresponding_backward"}

\* a reader that runs no query
Idle == [st |-> "idle"]

\* the relation a reader holds a reference to
Target(target) ==
    CASE target = "r1" -> r1
      [] target = "r2" -> r2
      [] OTHER -> rel

\* the map of r that the query op reads
MapOf(r, op) ==
    IF r.kind = "OneToMany"
    THEN IF op = "get_corresponding_backward" THEN r.many_to_one ELSE r.one_to_many
    ELSE IF op = "get_corresponding_backward" THEN r.backward ELSE r.forward

\* the handles the iterator of the query walks: keys() of the map for
\* get_from, from.iter() for the projections
IterOf(r, op, from) == IF op = "get_from" THEN DOMAIN MapOf(r, op) ELSE from

\* what the query collects for the handle h its iterator yields: the key
\* itself (keys().cloned()), or what map.get(h) finds: nothing for an absent
\* key, the one handle of many_to_one, every handle of an IdxSet
Collected(r, op, h) ==
    LET map == MapOf(r, op)
    IN  IF op = "get_from" THEN {h}
        ELSE IF h \notin DOMAIN map THEN {}
        ELSE IF r.kind = "OneToMany" /\ op = "get_corresponding_backward" THEN {map[h]}
        ELSE map[h]

\* the relation r with the key h taken out of the map that op reads
Removed(r, op, h) ==
    LET map == MapOf(r, op)
        less == [x \in (DOMAIN map) \ {h} |-> map[x]]
    IN  IF r.kind = "OneToMany"
        THEN IF op = "get_corresponding_backward" THEN OneToMany(r.one_to_many, less)
             ELSE OneToMany(less, r.many_to_one)
        ELSE IF op = "get_corresponding_backward" THEN ManyToMany(r.forward, less)
             ELSE ManyToMany(less, r.backward)

InitReaders ==
    /\ one = <<>>
    /\ many = <<>>
    /\ rel_name = ""
    /\ pc = "idle"
    /\ iter = 0
    /\ one_to_many = EmptyMap
    /\ many_to_one = EmptyMap
    /\ r1 \in {r \in OneToManyRelations :
                  Cardinality(DOMAIN r.many_to_one) >= MaxAssoc}
    /\ r2 \in {r \in ManyToManyRelations :
                  NumAssoc(r.forward, DOMAIN r.forward) >= MaxAssoc}
    /\ result = NotReturned
    /\ rel = NoRelation
    /\ out = NoQuery
    /\ inserting = <<>>
    /\ files = NoFiles
    /\ collections = Collections_default
    /\ read_result = NotReturned
    /\ rel_swapped = NoRelation
    /\ readers = [i \in Readers |-> Idle]

\* the state of a query that has `todo` to walk and has collected `acc`: the
\* query returns, with acc, once its iterator has nothing left to yield
Running(target, op, from, todo, acc) ==
    [st |-> IF todo = {} THEN "returned" ELSE "reading",
     target |-> target, op |-> op, from |-> from, todo |-> todo, acc |-> acc]

\* reader i calls the query op of the relation it holds
Call(i, target, op, from) ==
    /\ readers[i] = Idle
    /\ Target(target) # NoRelation
    /\ op = "get_from" => from = {}
    /\ readers' = [readers EXCEPT
                      ![i] = Running(target, op, from,
                                     IterOf(Target(target), op, from), {})]
    /\ UNCHANGED <<inserting, files, collections, read_result, rel_swapped>>
    /\ UNCHANGED <<one, many, rel_name, pc, iter, one_to_many, many_to_one,
                   r1, r2, result, rel, out>>

\* the step of a query with the entry it reads taken out of the map
\* (BTreeMap::remove in place of BTreeMap::get)
ReadNext_removing(i) ==
    /\ readers[i] # Idle
    /\ readers[i].st = "reading"
    /\ LET q == readers[i]
           h == Min(q.todo)
           r == Target(q.target)
       IN  /\ readers' = [readers EXCEPT
                             ![i] = Running(q.target, q.op, q.from, q.todo \ {h},
                                            q.acc \cup Collected(r, q.op, h))]
           /\ r1' = IF q.target = "r1" THEN Removed(r, q.op, h) ELSE r1
           /\ r2' = IF q.target = "r2" THEN Removed(r, q.op, h) ELSE r2
           /\ rel' = IF q.target = "rel" THEN Removed(r, q.op, h) ELSE rel
    /\ UNCHANGED <<inserting, files, collections, read_result, rel_swapped>>
    /\ UNCHANGED <<one, many, rel_name, pc, iter, one_to_many, many_to_one,
                   result, out>>

\* one step of the query of reader i: its iterator yields the next handle,
\* in handle order, and the query collects what the map holds for it
ReadNext(i) ==
    /\ readers[i] # Idle
    /\ readers[i].st = "reading"
    /\ LET q == readers[i]
           h == Min(q.todo)
       IN  readers' = [readers EXCEPT
                          ![i] = Running(q.target, q.op, q.from, q.todo \ {h},
                                         q.acc \cup Collected(Target(q.target), q.op, h))]
    /\ UNCHANGED <<inserting, files, collections, read_result, rel_swapped>>
    /\ UNCHANGED <<one, many, rel_name, pc, iter, one_to_many, many_to_one,
                   r1, r2, result, rel, out>>

\* reader i drops the answer (an owned IdxSet) of the query that returned
Drop(i) ==
    /\ readers[i] # Idle
    /\ readers[i].st = "returned"
    /\ readers' = [readers EXCEPT ![i] = Idle]
    /\ UNCHANGED <<inserting, files, collections, read_result, rel_swapped>>
    /\ UNCHANGED <<one, many, rel_name, pc, iter, one_to_many, many_to_one,
                   r1, r2, result, rel, out>>

NextReaders ==
    \/ FromRelationsChain
    \/ FromRelationsSink
    \/ \E i \in Readers, target \in {"r1", "r2", "rel"}, op \in QueryOps,
          from \in SUBSET IdxM : Call(i, target, op, from)
    \/ \E i \in Readers : ReadNext(i)
    \/ \E i \in Readers : Drop(i)

SpecReaders == InitReaders /\ [][NextReaders]_vars

\* the composed relation, built afresh from the caller's inputs
FreshlyBuilt ==
    CASE pc = "chain" -> from_relations_chain(r1, r2)
      [] pc = "sink" -> from_relations_sink(r1, r2)
      [] OTHER -> NoRelation

\* the relation a reader holds a reference to, as it was built
Fresh(target) == IF target = "rel" THEN FreshlyBuilt ELSE Target(target)

\* the answer of the query op about `from`, asked of relation r
Answer(r, op, from) ==
    IF op = "get_from" THEN get_from(r) ELSE Query(r, op, from)

\* the handles a running query has walked
Walked(q) == IterOf(Fresh(q.target), q.op, q.from) \ q.todo

\* C12: once the relations are built, no step of a query (get_from,
\* get_corresponding_forward, get_corresponding_backward) of any reader,
\* however the queries of the readers interleave with each other and with
\* the composition, changes a map of r1, r2 or the composed relation, and
\* from_relations_chain and from_relations_sink change neither r1 nor r2;
\* every query has collected, at each of its steps, what the freshly built
\* relation answers for the handles it has walked, and returns what the
\* freshly built relation answers.
C12_QueriesLeaveMapsUnchanged ==
    /\ [][/\ r1' = r1
          /\ r2' = r2
          /\ pc' = pc => rel' = rel]_vars
    /\ [](/\ rel = FreshlyBuilt
          /\ \A i \in Readers :
                 readers[i] # Idle =>
                     LET q == readers[i]
                     IN  /\ q.acc = (IF q.op = "get_from" THEN Walked(q)
                                     ELSE Query(Fresh(q.target), q.op, Walked(q)))
                         /\ q.st = "returned"
                                => q.acc = Answer(Fresh(q.target), q.op, q.from))

\* two readers query the composed relation at once: one is half way through
\* a forward projection of two handles, having collected a handle, the
\* other has its backward projection returned, not empty
C12_Witness ==
    /\ pc \in {"chain", "sink"}
    /\ readers[1] # Idle
    /\ readers[2] # Idle
    /\ readers[1].target = "rel"
    /\ readers[1].op = "get_corresponding_forward"
    /\ readers[1].st = "reading"
    /\ Cardinality(readers[1].from) = 2
    /\ readers[1].acc # {}
    /\ readers[2].target = "rel"
    /\ readers[2].op = "get_corresponding_backward"
    /\ readers[2].st = "returned"
    /\ readers[2].acc # {}

(***************************************************************************)
(* SpecInsert: two callers fill a forward map each with the same items,    *)
(* each in an order of its own, and each calls ManyToMany::from_forward on *)
(* its map.  An item is a pair <<from, to>>, inserted with                 *)
(* entry(from).or_insert_with(IdxSet::default).insert(to), or a key        *)
(* <<from>> whose entry is made without any handle in it.  A caller keeps  *)
(* the items it has still to insert (todo) and the items it has inserted,  *)
(* in the order of their insertion (log).                                  *)
(***************************************************************************)
Items == (IdxM \X IdxM) \cup {<<k>> : k \in IdxM}

\* the sets of at most n elements of S
RECURSIVE SubsetsUpTo(_, _)
SubsetsUpTo(S, n) ==
    IF n = 0 THEN {{}}
    ELSE LET smaller == SubsetsUpTo(S, n - 1)
         IN  smaller \cup {T \cup {x} : T \in smaller, x \in S}

\* the map after the insertion of one item
InsertItem(map, item) ==
    IF Len(item) = 2 THEN EntryInsert(map, item[1], item[2])
    ELSE IF item[1] \in DOMAIN map THEN map
    ELSE Insert(map, item[1], {})

InitInsert ==
    /\ one = <<>>
    /\ many = <<>>
    /\ rel_name = ""
    /\ pc = "idle"
    /\ iter = 0
    /\ one_to_many = EmptyMap
    /\ many_to_one = EmptyMap
    /\ r1 = NoRelation
    /\ r2 = NoRelation
    /\ result = NotReturned
    /\ rel = NoRelation
    /\ out = NoQuery
    /\ \E items \in SubsetsUpTo(Items, MaxAssoc) :
           inserting = <<[forward |-> EmptyMap, todo |-> items, log |-> <<>>],
                         [forward |-> EmptyMap, todo |-> items, log |-> <<>>]>>
    /\ files = NoFiles
    /\ collections = Collections_default
    /\ read_result = NotReturned
    /\ rel_swapped = NoRelation
    /\ readers = <<>>

\* caller c inserts one of the items it has not inserted yet
InsertNext(c, item) ==
    /\ item \in inserting[c].todo
    /\ inserting' = [inserting EXCEPT
                        ![c] = [forward |-> InsertItem(@.forward, item),
                                todo |-> @.todo \ {item},
                                log |-> Append(@.log, item)]]
    /\ UNCHANGED <<files, collections, read_result, rel_swapped, readers>>
    /\ UNCHANGED <<one, many, rel_name, pc, iter, one_to_many, many_to_one,
                   r1, r2, result, rel, out>>

\* the first caller's call ManyToMany::from_forward(forward)
FromForwardFirst ==
    /\ inserting[1].todo = {}
    /\ r1 = NoRelation
    /\ r1' = from_forward(inserting[1].forward)
    /\ UNCHANGED other_vars
    /\ UNCHANGED <<one, many, rel_name, pc, iter, one_to_many, many_to_one,
                   r2, result, rel, out>>

\* the second caller's call ManyToMany::from_forward(forward)
FromForwardSecond ==
    /\ inserting[2].todo = {}
    /\ r2 = NoRelation
    /\ r2' = from_forward(inserting[2].forward)
    /\ UNCHANGED other_vars
    /\ UNCHANGED <<one, many, rel_name, pc, iter, one_to_many, many_to_one,
                   r1, result, rel, out>>

NextInsert ==
    \/ \E c \in {1, 2} : \E item \in inserting[c].todo : InsertNext(c, item)
    \/ FromForwardFirst
    \/ FromForwardSecond

SpecInsert == InitInsert /\ [][NextInsert]_vars

\* the items a caller has inserted
Inserted(c) == {inserting[c].log[i] : i \in 1..Len(inserting[c].log)}

\* the forward map that holds the items: a key for every item, and under a
\* key the To-handles of its pairs
ForwardOf(items) ==
    [k \in {item[1] : item \in items} |->
        {item[2] : item \in {x \in items : Len(x) = 2 /\ x[1] = k}}]

\* the inverse of the pairs among the items: a key for every To-handle of a
\* pair, and under a key the From-handles of its pairs
BackwardOf(items) ==
    [v \in {item[2] : item \in {x \in items : Len(x) = 2}} |->
        {item[1] : item \in {x \in items : Len(x) = 2 /\ x[2] = v}}]

\* a sequence of pairs is in handle order: ascending in the first handle
\* and, for one first handle, ascending in the second
InHandleOrder(pairs) ==
    \A i \in 1..Len(pairs), j \in 1..Len(pairs) :
        i < j => \/ pairs[i][1] < pairs[j][1]
                 \/ pairs[i][1] = pairs[j][1] /\ pairs[i][2] < pairs[j][2]

\* both callers have inserted all their items and called from_forward
BothBuilt ==
    /\ inserting[1].todo = {}
    /\ inserting[2].todo = {}
    /\ r1 # NoRelation
    /\ r2 # NoRelation

\* C11: two callers that insert the same items into their forward maps, in
\* whatever order, hold equal forward maps, and from_forward builds from them
\* two relations with equal forward maps and equal backward maps: the
\* forward map holds exactly the items, whatever the order of the log, and
\* the backward map is its inverse; the pairs of both maps are iterated in
\* one order, the handle order.
C11_FromForwardDeterministic ==
    /\ (inserting[1].todo = {} /\ inserting[2].todo = {})
           => /\ Inserted(1) = Inserted(2)
              /\ inserting[1].forward = inserting[2].forward
              /\ inserting[1].forward = ForwardOf(Inserted(1))
    /\ BothBuilt
           => /\ r1.forward = r2.forward
              /\ r1.backward = r2.backward
              /\ r1.forward = ForwardOf(Inserted(1))
              /\ r1.backward = BackwardOf(Inserted(1))
              /\ r2.backward = BackwardOf(Inserted(2))
              /\ Pairs(r1.forward) = Pairs(r2.forward)
              /\ Pairs(r1.backward) = Pairs(r2.backward)
              /\ InHandleOrder(Pairs(r1.forward))
              /\ InHandleOrder(Pairs(r1.backward))

\* the callers have inserted two pairs of two keys and one To-handle in
\* opposite orders, and both have built their relation: the backward map
\* has one key, with two From-handles
C11_Witness ==
    /\ BothBuilt
    /\ Len(inserting[1].log) = 2
    /\ inserting[1].log # inserting[2].log
    /\ Cardinality(DOMAIN r1.forward) = 2
    /\ \E v \in DOMAIN r2.backward : Cardinality(r2.backward[v]) = 2

(***************************************************************************)
(* The GTFS readers (src/src/gtfs/read.rs).  A file is the sequence of its *)
(* rows, a Vec the sequence of its elements.  Of every object the fields   *)
(* that a reader computes are kept; the fields it copies from the row      *)
(* unchanged (url, timezone, coordinates, ...) are left out.               *)
(***************************************************************************)
MaxAgencies == 2

\* Option::unwrap_or_else
unwrap_or_else(option, default) == IF option = None THEN default ELSE option[1]

default_agency_id == "default_agency_id"

\* the position of the first element whose id an earlier element holds
FirstDuplicate(v) ==
    Min({j \in 1..Len(v) : \E i \in 1..(j - 1) : v[i].id = v[j].id})

\* CollectionWithId::new: the collection of the objects of v, in order, or
\* the duplicate-identifier error when two objects share an id
CollectionWithId_new(v) ==
    IF DistinctIds(v) THEN Ok(v)
    ELSE Err(<<[msg |-> "duplicate identifier", id |-> v[FirstDuplicate(v)].id]>>)

\* Network::from with the name of the agency taken as the id of an agency
\* that has none
Network_from_name(agency) ==
    [id |-> unwrap_or_else(agency.id, agency.name), name |-> agency.name]

\* impl From<Agency> for objects::Network
Network_from(agency) ==
    [id |-> unwrap_or_else(agency.id, default_agency_id), name |-> agency.name]

\* impl From<Agency> for objects::Company
Company_from(agency) ==
    [id |-> unwrap_or_else(agency.id, default_agency_id), name |-> agency.name]

\* read_agency, from the rows of agency.txt
read_agency(gtfs_agencies) ==
    LET networks == CollectionWithId_new(
                        [i \in 1..Len(gtfs_agencies) |-> Network_from(gtfs_agencies[i])])
        companies == CollectionWithId_new(
                        [i \in 1..Len(gtfs_agencies) |-> Company_from(gtfs_agencies[i])])
    IN  IF networks.tag = "Err" THEN networks
        ELSE IF companies.tag = "Err" THEN companies
        ELSE Ok([networks |-> networks.v, companies |-> companies.v])

\* the relation layer at rest: no constructor called, nothing built
RelationsIdle ==
    /\ one = <<>>
    /\ many = <<>>
    /\ rel_name = ""
    /\ iter = 0
    /\ one_to_many = EmptyMap
    /\ many_to_one = EmptyMap
    /\ r1 = NoRelation
    /\ r2 = NoRelation
    /\ result = NotReturned
    /\ rel = NoRelation
    /\ out = NoQuery
    /\ inserting = <<>>

relation_vars == <<one, many, rel_name, iter, one_to_many, many_to_one,
                   r1, r2, result, rel, out, inserting, rel_swapped, readers>>

(***************************************************************************)
(* SpecAgency: read_agency is called on a directory whose agency.txt holds *)
(* at most MaxAgencies rows.                                               *)
(***************************************************************************)
AgencyIds == {"id_1", "id_2", default_agency_id}
AgencyNames == {"My agency 1", "My agency 2"}

\* the rows of agency.txt as deserialized: agency_id is an Option
Agencies == [id : {None} \cup {Some(a) : a \in AgencyIds}, name : AgencyNames]

InitAgency ==
    /\ RelationsIdle
    /\ pc = "idle"
    /\ \E rows \in SeqsUpTo(Agencies, MaxAgencies) :
           files = [NoFiles EXCEPT !.agency = rows]
    /\ collections = Collections_default
    /\ read_result = NotReturned
    /\ rel_swapped = NoRelation
    /\ readers = <<>>

\* the call read_agency(path)
ReadAgency ==
    /\ pc = "idle"
    /\ read_result' = read_agency(files.agency)
    /\ pc' = "read_agency"
    /\ UNCHANGED <<files, collections>>
    /\ UNCHANGED relation_vars

NextAgency == ReadAgency

SpecAgency == InitAgency /\ [][NextAgency]_vars

\* the id that read_agency gives the objects of the i-th agency row
AgencyId(i) ==
    IF files.agency[i].id = None THEN "default_agency_id" ELSE files.agency[i].id[1]

\* C17: read_agency produces one network and one company per agency row,
\* whose id is the row's agency_id, or "default_agency_id" when the row has
\* none; when two rows yield the same id, it returns the
\* duplicate-identifier error and no collection.
C17_ReadAgency ==
    pc = "read_agency" =>
        LET rows == 1..Len(files.agency)
        IN  IF \E i, j \in rows : i # j /\ AgencyId(i) = AgencyId(j)
            THEN /\ read_result.tag = "Err"
                 /\ read_result.e[1].msg = "duplicate identifier"
                 /\ \E i, j \in rows :
                        i # j /\ AgencyId(i) = AgencyId(j) /\ read_result.e[1].id = AgencyId(i)
            ELSE /\ read_result.tag = "Ok"
                 /\ Len(read_result.v.networks) = Len(files.agency)
                 /\ Len(read_result.v.companies) = Len(files.agency)
                 /\ \A i \in rows :
                        /\ read_result.v.networks[i].id = AgencyId(i)
                        /\ read_result.v.companies[i].id = AgencyId(i)

\* two agency rows without agency_id, of different names, were read: the
\* duplicate-identifier error about "default_agency_id" is returned
C17_Witness ==
    /\ pc = "read_agency"
    /\ Len(files.agency) = 2
    /\ files.agency[1].id = None
    /\ files.agency[2].id = None
    /\ files.agency[1].name # files.agency[2].name
    /\ read_result.tag = "Err"
    /\ read_result.e[1].id = "default_agency_id"

(***************************************************************************)
(* read_stops                                                              *)
(***************************************************************************)
MaxStops == 2
MaxLocationType == 2

\* the codes that From<Stop> gives a stop area or a stop point
stop_codes(stop) ==
    IF stop.code = None THEN <<>> ELSE <<<<"gtfs_stop_code", stop.code[1]>>>>

\* impl From<Stop> for objects::StopArea
StopArea_from(stop) == [id |-> stop.id, codes |-> stop_codes(stop)]

\* impl From<Stop> for objects::StopPoint (parent_station.unwrap())
StopPoint_from(stop) ==
    [id |-> stop.id, codes |-> stop_codes(stop), stop_area_id |-> stop.parent_station[1]]

\* the generated stop area with the stop_code of the stop left on it
new_stop_area_with_code(stop) == [stop EXCEPT !.id = "Navitia:" \o stop.id]

\* the stop that read_stops makes the generated stop area of
new_stop_area(stop) == [stop EXCEPT !.id = "Navitia:" \o stop.id, !.code = None]

\* the loop of read_stops over the rows from position i on
RECURSIVE read_stops_loop(_, _, _, _)
read_stops_loop(gtfs_stops, i, stop_areas, stop_points) ==
    IF i > Len(gtfs_stops)
    THEN [stop_areas |-> stop_areas, stop_points |-> stop_points]
    ELSE LET stop == gtfs_stops[i]
         IN  IF stop.location_type = 0
             THEN IF stop.parent_station = None
                  THEN LET area == new_stop_area(stop)
                           point == [stop EXCEPT !.parent_station = Some(area.id)]
                       IN  read_stops_loop(gtfs_stops, i + 1,
                                           Append(stop_areas, StopArea_from(area)),
                                           Append(stop_points, StopPoint_from(point)))
                  ELSE read_stops_loop(gtfs_stops, i + 1, stop_areas,
                                       Append(stop_points, StopPoint_from(stop)))
             ELSE IF stop.location_type = 1
             THEN read_stops_loop(gtfs_stops, i + 1,
                                  Append(stop_areas, StopArea_from(stop)), stop_points)
             ELSE read_stops_loop(gtfs_stops, i + 1, stop_areas, stop_points)

\* read_stops, from the rows of stops.txt
read_stops(gtfs_stops) ==
    LET vecs == read_stops_loop(gtfs_stops, 1, <<>>, <<>>)
        stoppoints == CollectionWithId_new(vecs.stop_points)
        stopareas == CollectionWithId_new(vecs.stop_areas)
    IN  IF stoppoints.tag = "Err" THEN stoppoints
        ELSE IF stopareas.tag = "Err" THEN stopareas
        ELSE Ok([stop_areas |-> stopareas.v, stop_points |-> stoppoints.v])

(***************************************************************************)
(* SpecStops: read_stops is called on a directory whose stops.txt holds at *)
(* most MaxStops rows.                                                     *)
(***************************************************************************)
StopIds == {"id1", "Navitia:id1"}
StopCodes == {"1234"}
ParentStations == {"stop_area_id"}
LocationTypes == 0..MaxLocationType

\* the rows of stops.txt as deserialized
Stops ==
    [id : StopIds,
     code : {None} \cup {Some(c) : c \in StopCodes},
     location_type : LocationTypes,
     parent_station : {None} \cup {Some(p) : p \in ParentStations}]

InitStops ==
    /\ RelationsIdle
    /\ pc = "idle"
    /\ \E rows \in SeqsUpTo(Stops, MaxStops) :
           files = [NoFiles EXCEPT !.stops = rows]
    /\ collections = Collections_default
    /\ read_result = NotReturned
    /\ rel_swapped = NoRelation
    /\ readers = <<>>

\* the call read_stops(path)
ReadStops ==
    /\ pc = "idle"
    /\ read_result' = read_stops(files.stops)
    /\ pc' = "read_stops"
    /\ UNCHANGED <<files, collections>>
    /\ UNCHANGED relation_vars

NextStops == ReadStops

SpecStops == InitStops /\ [][NextStops]_vars

\* the rows of stops.txt of location_type 0, those of location_type 1, and
\* those of location_type 0 that have no parent_station
PointRows == {i \in 1..Len(files.stops) : files.stops[i].location_type = 0}
AreaRows == {i \in 1..Len(files.stops) : files.stops[i].location_type = 1}
ParentlessRows == {i \in PointRows : files.stops[i].parent_station = None}

\* the codes expected from row i: its stop_code, if any, as "gtfs_stop_code"
ExpectedCodes(i) ==
    IF files.stops[i].code = None THEN <<>>
    ELSE <<<<"gtfs_stop_code", files.stops[i].code[1]>>>>

\* the id of the stop area expected from row i, a stop area or a stop point
\* without parent_station
ExpectedAreaId(i) ==
    IF i \in AreaRows THEN files.stops[i].id ELSE "Navitia:" \o files.stops[i].id

\* read_stops has returned the stop points and stop areas that C15 tells
StopsAsClaimed ==
    /\ read_result.tag = "Ok"
    /\ LET sp == read_result.v.stop_points
           sa == read_result.v.stop_areas
       IN  /\ Len(sp) = Cardinality(PointRows)
           /\ Len(sa) = Cardinality(AreaRows) + Cardinality(ParentlessRows)
           /\ \A i \in PointRows :
                  \E j \in 1..Len(sp) :
                      sp[j] = [id |-> files.stops[i].id,
                               codes |-> ExpectedCodes(i),
                               stop_area_id |->
                                   IF i \in ParentlessRows THEN ExpectedAreaId(i)
                                   ELSE files.stops[i].parent_station[1]]
           /\ \A i \in AreaRows :
                  \E j \in 1..Len(sa) :
                      sa[j] = [id |-> files.stops[i].id, codes |-> ExpectedCodes(i)]
           /\ \A i \in ParentlessRows :
                  \E j \in 1..Len(sa) :
                      sa[j] = [id |-> ExpectedAreaId(i), codes |-> <<>>]

\* no two stop points and no two stop areas, generated ones included, that
\* the rows yield share an id
StopIdsDistinct ==
    /\ \A i, j \in PointRows : files.stops[i].id = files.stops[j].id => i = j
    /\ \A i, j \in AreaRows \cup ParentlessRows :
           ExpectedAreaId(i) = ExpectedAreaId(j) => i = j

\* C15 (as claimed): read_stops turns every stop of location_type 0 into one
\* stop point and every stop of location_type 1 into one stop area and
\* ignores the other rows; a location_type 0 stop without parent_station
\* also yields the stop area "Navitia:<stop id>", without codes, which is
\* the stop point's stop_area_id; a stop point with a parent_station keeps
\* it; a stop_code becomes the single code "gtfs_stop_code".
C15_ReadStopsAsClaimed ==
    pc = "read_stops" => StopsAsClaimed

\* C15 (amended): the same, provided no two stop points and no two stop
\* areas (generated ones included) of the file share an id; otherwise
\* read_stops returns the duplicate-identifier error and no collection.
C15_ReadStops ==
    pc = "read_stops" =>
        IF StopIdsDistinct THEN StopsAsClaimed
        ELSE /\ read_result.tag = "Err"
             /\ read_result.e[1].msg = "duplicate identifier"

\* a stop point without parent_station that has a stop_code, and a stop
\* area, have been read
C15_Witness ==
    /\ pc = "read_stops"
    /\ read_result.tag = "Ok"
    /\ \E i \in ParentlessRows : files.stops[i].code # None
    /\ AreaRows # {}
    /\ Len(read_result.v.stop_areas) = 2
    /\ Len(read_result.v.stop_points) = 1

(***************************************************************************)
(* read_routes: route types and modes                                      *)
(***************************************************************************)
\* enum RouteType: a named variant, or Other(i)
Other(i) == [variant |-> "Other", i |-> i]
Tramway_LightRail == [variant |-> "Tramway_LightRail"]
Metro == [variant |-> "Metro"]
Rail == [variant |-> "Rail"]
Bus == [variant |-> "Bus"]
Ferry == [variant |-> "Ferry"]
CableCar == [variant |-> "CableCar"]
Gondola_SuspendedCableCar == [variant |-> "Gondola_SuspendedCableCar"]
Funicular == [variant |-> "Funicular"]

\* u16::to_string: the decimal digits of i
RECURSIVE to_string(_)
to_string(i) ==
    LET digit == <<"0", "1", "2", "3", "4", "5", "6", "7", "8", "9">>
    IN  IF i < 10 THEN digit[i + 1]
        ELSE to_string(i \div 10) \o digit[(i % 10) + 1]

\* RouteType::to_gtfs_value
to_gtfs_value(route_type) ==
    CASE route_type = Tramway_LightRail -> "0"
      [] route_type = Metro -> "1"
      [] route_type = Rail -> "2"
      [] route_type = Bus -> "3"
      [] route_type = Ferry -> "4"
      [] route_type = CableCar -> "5"
      [] route_type = Gondola_SuspendedCableCar -> "6"
      [] route_type = Funicular -> "7"
      [] OTHER -> to_string(route_type.i)

\* the match of RouteType::deserialize
RouteType_match(i) ==
    CASE i = 0 -> Tramway_LightRail
      [] i = 1 -> Metro
      [] i = 2 -> Rail
      [] i = 3 -> Bus
      [] i = 4 -> Ferry
      [] i = 5 -> CableCar
      [] i = 6 -> Gondola_SuspendedCableCar
      [] i = 7 -> Funicular
      [] OTHER -> Other(i)

\* RouteType::deserialize with the fallback to Bus ending one value early
RouteType_deserialize_below_98(u) ==
    IF u > 7 /\ u < 98 THEN RouteType_match(3) ELSE RouteType_match(u)

\* RouteType::deserialize, of the value u that u16::deserialize returned
RouteType_deserialize(u) ==
    LET i == IF u > 7 /\ u < 99 THEN 3 ELSE u
    IN  RouteType_match(i)

\* get_commercial_mode_label
get_commercial_mode_label(route_type) ==
    CASE route_type = Tramway_LightRail -> "Tram, Streetcar, Light rail"
      [] route_type = Metro -> "Subway, Metro"
      [] route_type = Rail -> "Rail"
      [] route_type = Bus -> "Bus"
      [] route_type = Ferry -> "Ferry"
      [] route_type = CableCar -> "Cable car"
      [] route_type = Gondola_SuspendedCableCar -> "Gondola, Suspended cable car"
      [] route_type = Funicular -> "Funicular"
      [] OTHER -> "Unknown Mode"

\* get_commercial_mode
get_commercial_mode(route_type) ==
    [id |-> to_gtfs_value(route_type), name |-> get_commercial_mode_label(route_type)]

\* get_physical_mode
get_physical_mode(route_type) ==
    CASE route_type = Tramway_LightRail -> [id |-> "RailShuttle", name |-> "Rail Shuttle"]
      [] route_type = Metro -> [id |-> "Metro", name |-> "Metro"]
      [] route_type = Rail -> [id |-> "Train", name |-> "Train"]
      [] route_type = Ferry -> [id |-> "Ferry", name |-> "Ferry"]
      [] route_type \in {CableCar, Gondola_SuspendedCableCar, Funicular}
             -> [id |-> "Funicular", name |-> "Funicular"]
      [] OTHER -> [id |-> "Bus", name |-> "Bus"]

\* the sequences that hold every element of S once: the orders in which a
\* HashSet or a HashMap may iterate over S
Orders(S) ==
    {order \in [1..Cardinality(S) -> S] :
        \A i, j \in 1..Cardinality(S) : order[i] = order[j] => i = j}

\* the HashSet of the route types of the routes
gtfs_mode_types(gtfs_routes) ==
    {gtfs_routes[i].route_type : i \in 1..Len(gtfs_routes)}

\* get_modes_from_gtfs, the HashSet iterating in the order types_order
get_modes_from_gtfs(types_order) ==
    [commercial_modes |->
         [k \in 1..Len(types_order) |-> get_commercial_mode(types_order[k])],
     physical_modes |->
         [k \in 1..Len(types_order) |-> get_physical_mode(types_order[k])]]

(***************************************************************************)
(* read_routes: lines and routes.  A &Route is the position of the route   *)
(* in gtfs_routes.                                                         *)
(***************************************************************************)
\* the route ids of the model, in the order of String
RouteIds == <<"route_1", "route_1_R">>

\* the rank of a route id in the order of String
id_rank(id) == CHOOSE k \in 1..Len(RouteIds) : RouteIds[k] = id

\* a row of routes.txt deserialized into a Route
Route_deserialize(row) ==
    [row EXCEPT !.route_type = RouteType_deserialize(row.route_type)]

\* de_with_empty_default for DirectionType: an empty field is the default
\* (Forward), "0" is Forward and "1" is Backward
de_with_empty_default(direction_id) ==
    IF direction_id = "" THEN "Forward"
    ELSE IF direction_id = "0" THEN "Forward"
    ELSE "Backward"

\* a row of trips.txt deserialized into a Trip
Trip_deserialize(row) ==
    [route_id |-> row.route_id, direction |-> de_with_empty_default(row.direction_id)]

\* Route::get_line_key
get_line_key(route) ==
    LET name == IF route.short_name # "" THEN route.short_name ELSE route.long_name
    IN  <<route.agency_id, name>>

\* map_line_routes: every line key mapped to the routes that have it, in
\* the order of the file
map_line_routes(gtfs_routes) ==
    [key \in {get_line_key(gtfs_routes[i]) : i \in 1..Len(gtfs_routes)} |->
        SelectSeq([i \in 1..Len(gtfs_routes) |-> i],
                  LAMBDA i : get_line_key(gtfs_routes[i]) = key)]

\* get_route_with_smallest_name: min_by_key over the ids returns the first
\* of the routes whose id is the smallest
get_route_with_smallest_name(gtfs_routes, routes) ==
    LET rank(k) == id_rank(gtfs_routes[routes[k]].id)
        first == CHOOSE k \in 1..Len(routes) :
                     /\ \A j \in 1..Len(routes) : rank(k) <= rank(j)
                     /\ \A j \in 1..(k - 1) : rank(j) # rank(k)
    IN  gtfs_routes[routes[first]]

\* gtfs_trips.iter().any(|t| t.route_id == id)
any_trip(gtfs_trips, id) == \E t \in 1..Len(gtfs_trips) : gtfs_trips[t].route_id = id

\* the Line that make_lines pushes for the route r
Line(r) ==
    [id |-> r.id,
     code |-> IF r.short_name = "" THEN None ELSE Some(r.short_name),
     name |-> r.long_name,
     network_id |-> unwrap_or_else(r.agency_id, default_agency_id),
     commercial_mode_id |-> to_gtfs_value(r.route_type)]

\* make_lines, over the values of the map from the k-th key of keys_order on
RECURSIVE make_lines_from(_, _, _, _, _, _)
make_lines_from(gtfs_routes, gtfs_trips, map, keys_order, k, lines) ==
    IF k > Len(keys_order) THEN lines
    ELSE LET r == get_route_with_smallest_name(gtfs_routes, map[keys_order[k]])
         IN  make_lines_from(gtfs_routes, gtfs_trips, map, keys_order, k + 1,
                             IF any_trip(gtfs_trips, r.id)
                             THEN Append(lines, Line(r)) ELSE lines)

\* make_lines, the HashMap iterating in the order keys_order
make_lines(gtfs_routes, gtfs_trips, map, keys_order) ==
    make_lines_from(gtfs_routes, gtfs_trips, map, keys_order, 1, <<>>)

\* the HashSet route_directions of the route r
route_directions(gtfs_trips, r) ==
    {gtfs_trips[t].direction : t \in {u \in 1..Len(gtfs_trips) : gtfs_trips[u].route_id = r.id}}

\* the Route that make_routes pushes for the route r, of the line of the
\* route sr, and the direction d
Route(r, sr, d) ==
    [id |-> IF d = "Forward" THEN r.id ELSE r.id \o "_R",
     name |-> r.long_name,
     direction_type |-> Some(IF d = "Forward" THEN "forward" ELSE "backward"),
     line_id |-> sr.id]

\* the routes pushed for the route at position i: one per direction of its
\* trips; a HashSet of both directions iterates Backward first for the
\* positions of backward_first
routes_of(gtfs_routes, gtfs_trips, i, sr, backward_first) ==
    LET r == gtfs_routes[i]
        directions == route_directions(gtfs_trips, r)
    IN  IF directions = {} THEN <<>>
        ELSE IF Cardinality(directions) = 1
        THEN <<Route(r, sr, CHOOSE d \in directions : TRUE)>>
        ELSE IF i \in backward_first
        THEN <<Route(r, sr, "Backward"), Route(r, sr, "Forward")>>
        ELSE <<Route(r, sr, "Forward"), Route(r, sr, "Backward")>>

\* the inner loop of make_routes over the routes rs of a line, from the j-th
RECURSIVE make_routes_of_line(_, _, _, _, _, _, _)
make_routes_of_line(gtfs_routes, gtfs_trips, rs, sr, backward_first, j, routes) ==
    IF j > Len(rs) THEN routes
    ELSE make_routes_of_line(gtfs_routes, gtfs_trips, rs, sr, backward_first, j + 1,
             routes \o routes_of(gtfs_routes, gtfs_trips, rs[j], sr, backward_first))

\* make_routes, over the values of the map from the k-th key of keys_order
RECURSIVE make_routes_from(_, _, _, _, _, _, _)
make_routes_from(gtfs_routes, gtfs_trips, map, keys_order, backward_first, k, routes) ==
    IF k > Len(keys_order) THEN routes
    ELSE LET rs == map[keys_order[k]]
             sr == get_route_with_smallest_name(gtfs_routes, rs)
         IN  make_routes_from(gtfs_routes, gtfs_trips, map, keys_order, backward_first,
                 k + 1,
                 make_routes_of_line(gtfs_routes, gtfs_trips, rs, sr, backward_first,
                                     1, routes))

\* make_routes, the HashMap iterating in the order keys_order
make_routes(gtfs_routes, gtfs_trips, map, keys_order, backward_first) ==
    make_routes_from(gtfs_routes, gtfs_trips, map, keys_order, backward_first, 1, <<>>)

\* read_routes, from the rows of routes.txt and trips.txt, on the
\* collections c; hash holds the iteration orders of the HashSet of the
\* route types (types), of the HashMap of the lines (keys) and of the
\* HashSets of directions (backward_first).  It returns the Result and the
\* collections as it leaves them.
read_routes(routes_rows, trips_rows, c, hash) ==
    LET gtfs_routes == [i \in 1..Len(routes_rows) |-> Route_deserialize(routes_rows[i])]
        modes == get_modes_from_gtfs(hash.types)
        commercial_modes == CollectionWithId_new(modes.commercial_modes)
        physical_modes == CollectionWithId_new(modes.physical_modes)
        gtfs_trips == [i \in 1..Len(trips_rows) |-> Trip_deserialize(trips_rows[i])]
        map == map_line_routes(gtfs_routes)
        lines == CollectionWithId_new(
                     make_lines(gtfs_routes, gtfs_trips, map, hash.keys))
        routes == CollectionWithId_new(
                      make_routes(gtfs_routes, gtfs_trips, map, hash.keys,
                                  hash.backward_first))
    IN  IF commercial_modes.tag = "Err"
        THEN [result |-> commercial_modes, collections |-> c]
        ELSE LET c1 == [c EXCEPT !.commercial_modes = commercial_modes.v]
        IN  IF physical_modes.tag = "Err"
        THEN [result |-> physical_modes, collections |-> c1]
        ELSE LET c2 == [c1 EXCEPT !.physical_modes = physical_modes.v]
        IN  IF lines.tag = "Err"
        THEN [result |-> lines, collections |-> c2]
        ELSE LET c3 == [c2 EXCEPT !.lines = lines.v]
        IN  IF routes.tag = "Err"
        THEN [result |-> routes, collections |-> c3]
        ELSE [result |-> Ok(<<>>), collections |-> [c3 EXCEPT !.routes = routes.v]]

(***************************************************************************)
(* SpecRoutes: read_routes is called, on empty collections, on a directory *)
(* whose routes.txt and trips.txt hold at most MaxRoutes and MaxTrips rows *)
(* of bus routes, or two routes of any two route types, with a trip each.  *)
(***************************************************************************)
MaxRoutes == 2
MaxTrips == 2
MaxRouteType == 100

\* the values of route_type: the small ones and the largest u16
RouteTypeValues == (0..MaxRouteType) \cup {2^16 - 1}

\* the rows of routes.txt, as csv yields them
Routes ==
    [id : {RouteIds[k] : k \in 1..Len(RouteIds)},
     agency_id : {None, Some("agency_1")},
     short_name : {"", "1"},
     long_name : {"My line 1"},
     route_type : {3}]

\* the rows of trips.txt, as csv yields them
Trips ==
    [route_id : {RouteIds[k] : k \in 1..Len(RouteIds)},
     direction_id : {"", "0", "1"}]

\* two routes of two lines, of route types t1 and t2, with a trip each
TypedFiles(t1, t2) ==
    [NoFiles EXCEPT
        !.routes = <<[id |-> "route_1", agency_id |-> Some("agency_1"),
                      short_name |-> "1", long_name |-> "My line 1",
                      route_type |-> t1],
                     [id |-> "route_1_R", agency_id |-> Some("agency_1"),
                      short_name |-> "", long_name |-> "My line 1",
                      route_type |-> t2]>>,
        !.trips = <<[route_id |-> "route_1", direction_id |-> "0"],
                    [route_id |-> "route_1_R", direction_id |-> ""]>>]

InitRoutes ==
    /\ RelationsIdle
    /\ pc = "idle"
    /\ \/ \E routes \in SeqsUpTo(Routes, MaxRoutes), trips \in SeqsUpTo(Trips, MaxTrips) :
              files = [NoFiles EXCEPT !.routes = routes, !.trips = trips]
       \/ \E t1 \in RouteTypeValues, t2 \in RouteTypeValues :
              files = TypedFiles(t1, t2)
    /\ collections = Collections_default
    /\ read_result = NotReturned
    /\ rel_swapped = NoRelation
    /\ readers = <<>>

\* the call read_routes(path, &mut collections); the hash containers
\* iterate in any order
ReadRoutes ==
    /\ pc = "idle"
    /\ LET gtfs_routes == [i \in 1..Len(files.routes) |-> Route_deserialize(files.routes[i])]
           gtfs_trips == [i \in 1..Len(files.trips) |-> Trip_deserialize(files.trips[i])]
           both == {i \in 1..Len(gtfs_routes) :
                       Cardinality(route_directions(gtfs_trips, gtfs_routes[i])) = 2}
       IN  \E types_order \in Orders(gtfs_mode_types(gtfs_routes)),
              keys_order \in Orders(DOMAIN map_line_routes(gtfs_routes)),
              backward_first \in SUBSET both :
               LET ret == read_routes(files.routes, files.trips, collections,
                                      [types |-> types_order, keys |-> keys_order,
                                       backward_first |-> backward_first])
               IN  /\ read_result' = ret.result
                   /\ collections' = ret.collections
    /\ pc' = "read_routes"
    /\ UNCHANGED files
    /\ UNCHANGED relation_vars

NextRoutes == ReadRoutes

SpecRoutes == InitRoutes /\ [][NextRoutes]_vars

(***************************************************************************)
(* Properties of read_routes, under SpecRoutes.                            *)
(***************************************************************************)
RouteRows == 1..Len(files.routes)

\* the key of the group of the i-th row of routes.txt: its agency_id, and
\* its short_name if that is not empty, else its long_name
GroupKey(i) ==
    <<files.routes[i].agency_id,
      IF files.routes[i].short_name # "" THEN files.routes[i].short_name
      ELSE files.routes[i].long_name>>

GroupKeys == {GroupKey(i) : i \in RouteRows}

\* the rows of the group of a key
Group(key) == {i \in RouteRows : GroupKey(i) = key}

\* the smallest route_id of the group of a key
SmallestRouteId(key) ==
    LET ranks == {id_rank(files.routes[i].id) : i \in Group(key)}
    IN  RouteIds[Min(ranks)]

\* some trip of trips.txt has the route_id of the i-th row of routes.txt
HasTrip(i) ==
    \E t \in 1..Len(files.trips) : files.trips[t].route_id = files.routes[i].id

\* the groups in which some route has a trip
GroupsWithTrips == {key \in GroupKeys : \E i \in Group(key) : HasTrip(i)}

\* read_routes has produced the lines that C13 tells
LinesAsClaimed ==
    LET lines == collections.lines
    IN  /\ Len(lines) = Cardinality(GroupsWithTrips)
        /\ \A key \in GroupsWithTrips :
               Cardinality({j \in 1..Len(lines) :
                               /\ lines[j].id = SmallestRouteId(key)
                               /\ lines[j].network_id =
                                      (IF key[1] = None THEN "default_agency_id"
                                       ELSE key[1][1])}) = 1

\* C13 (as claimed, and only where read_routes returns Ok): read_routes
\* groups the routes by (agency_id, short_name if not empty, else
\* long_name) and produces exactly one line for every group in which some
\* route has a trip and none for a group without trips; the id of the line
\* is the smallest route_id of the group, its network_id the agency_id of
\* the group, or "default_agency_id".
C13_OneLinePerGroupWithTrips ==
    (pc = "read_routes" /\ read_result.tag = "Ok") => LinesAsClaimed

\* the direction that a direction_id stands for: empty counts as Forward
DirectionOf(direction_id) == IF direction_id = "1" THEN "Backward" ELSE "Forward"

\* the pairs of a row of routes.txt and a direction of one of its trips
RouteDirections ==
    {p \in RouteRows \X {"Forward", "Backward"} :
        \E t \in 1..Len(files.trips) :
            /\ files.trips[t].route_id = files.routes[p[1]].id
            /\ DirectionOf(files.trips[t].direction_id) = p[2]}

\* the id of the route object of a row and a direction
ExpectedRouteId(p) ==
    IF p[2] = "Forward" THEN files.routes[p[1]].id
    ELSE files.routes[p[1]].id \o "_R"

\* no two route objects that the files call for share an id
ExpectedRouteIdsDistinct ==
    \A p, q \in RouteDirections : ExpectedRouteId(p) = ExpectedRouteId(q) => p = q

\* read_routes has produced the route objects that C14 tells
RoutesAsClaimed ==
    LET routes == collections.routes
    IN  /\ Len(routes) = Cardinality(RouteDirections)
        /\ \A p \in RouteDirections :
               Cardinality({j \in 1..Len(routes) :
                               /\ routes[j].id = ExpectedRouteId(p)
                               /\ routes[j].line_id = SmallestRouteId(GroupKey(p[1]))}) = 1

\* C14 (as claimed, and only for files that call for route objects of
\* distinct ids): read_routes produces, for every route r of routes.txt and
\* every direction among the trips of r (an empty direction_id counting as
\* Forward), exactly one route object, of id r.id for Forward and r.id
\* followed by "_R" for Backward, whose line_id is the smallest route_id of
\* the group of r; a route without trips produces none.
C14_OneRoutePerDirection ==
    (pc = "read_routes" /\ ExpectedRouteIdsDistinct) => RoutesAsClaimed

\* the ids "8" to "98"
IllegalModeIds == {to_string(i) : i \in 8..98}

\* the decoding of the route_type value i that C16 tells
DecodedAsClaimed(i) ==
    LET route_type == RouteType_deserialize(i)
        named == <<Tramway_LightRail, Metro, Rail, Bus, Ferry, CableCar,
                   Gondola_SuspendedCableCar, Funicular>>
    IN  /\ i <= 7 => route_type = named[i + 1]
        /\ (8 <= i /\ i <= 98) => route_type = Bus
        /\ i >= 99 => route_type = Other(i)

\* C16: a route_type value i of 0..7 decodes to the named type of i, one
\* of 8..98 to Bus (3), one of 99 or more to Other(i); no commercial mode
\* that read_routes produces has an id of "8".."98" and no line has such a
\* commercial_mode_id; the commercial mode of a route of type 8 is "3" and
\* its physical mode "Bus".
C16_RouteTypeDecoding ==
    /\ \A i \in RouteRows : DecodedAsClaimed(files.routes[i].route_type)
    /\ \A j \in 1..Len(collections.commercial_modes) :
           collections.commercial_modes[j].id \notin IllegalModeIds
    /\ \A j \in 1..Len(collections.lines) :
           collections.lines[j].commercial_mode_id \notin IllegalModeIds
    /\ \A i \in RouteRows :
           files.routes[i].route_type = 8 =>
               LET route_type == RouteType_deserialize(files.routes[i].route_type)
               IN  /\ get_commercial_mode(route_type).id = "3"
                   /\ get_physical_mode(route_type).id = "Bus"
                   /\ \A j \in 1..Len(collections.lines) :
                          collections.lines[j].id = files.routes[i].id
                              => collections.lines[j].commercial_mode_id = "3"
                   /\ pc = "read_routes" =>
                          \E j \in 1..Len(collections.commercial_modes) :
                              collections.commercial_modes[j].id = "3"
                   /\ read_result.tag = "Ok" =>
                          \E j \in 1..Len(collections.physical_modes) :
                              collections.physical_modes[j].id = "Bus"

\* routes of the types 8 and 98 have been read: one commercial mode "3",
\* one physical mode "Bus", and two lines of commercial mode "3"
C16_Witness ==
    /\ pc = "read_routes"
    /\ read_result.tag = "Ok"
    /\ {files.routes[i].route_type : i \in RouteRows} = {8, 98}
    /\ Len(collections.commercial_modes) = 1
    /\ collections.commercial_modes[1].id = "3"
    /\ collections.physical_modes[1].id = "Bus"
    /\ Len(collections.lines) = 2
    /\ \A j \in 1..Len(collections.lines) : collections.lines[j].commercial_mode_id = "3"

=============================================================================
